---- MODULE Spec2Model ----
(***************************************************************************)
(* Model of rust-sfsm: the two generated state-machine drivers (the        *)
(* declarative macro `rustfsm!` of src/lib.rs and the attribute macro      *)
(* `rust_sfsm` of rust-sfsm-macros) running the two example domains        *)
(* (examples/protocol.rs and examples/mario.rs).                           *)
(*                                                                         *)
(* A driver call (handle / handle_event, transit, force_state) is one      *)
(* action.  The steps a call performs (transition function, exit hook,     *)
(* assignment, enter hook) are composed in the order of the code and are   *)
(* recorded, with the context before and after each, in `last.trace`.      *)
(***************************************************************************)
EXTENDS Integers, Sequences, FiniteSets, TLC

VARIABLES
    domain,          \* which example's States/Events/Context the driver is generated for
    driver,          \* which macro generated the driver
    overflow_checks, \* build profile: TRUE = arithmetic overflow panics, FALSE = it wraps
    current_state,   \* self.current_state
    context,         \* self.context
    panicked,        \* a call has panicked (the thread is unwinding)
    last,            \* the last call: operation, argument, the operation before it,
                     \* state/context before, value returned by the transition function, steps
    nCalls,          \* number of driver calls made
    nSupervised,     \* transit calls plus dispatches whose transition function returned Some
    nExit,           \* number of completed exit-hook calls
    nEnter,          \* number of completed enter-hook calls
    main_step        \* number of statements of the example's main() executed so far, -1 when
                     \* the calls made are not a prefix of main()

vars == <<domain, driver, overflow_checks, current_state, context, panicked, last,
          nCalls, nSupervised, nExit, nEnter, main_step>>

\* Number of driver calls explored per behaviour.
MaxCalls == 6

U8 == 256
U16 == 65536

None == "None"

------------------------------------------------------------------------------
\* examples/protocol.rs

ProtocolStates == {"Init", "Opened", "Closed", "Locked"}
ProtocolEvents == {"Create", "Open", "Close", "Lock", "Unlock"}
ProtocolDefaultState == "Init"
ProtocolDefaultContext == [lock_counter |-> 0]

\* Protocol_enter counting every entry into a closed door
Protocol_enter_counts_closed(self, ctx) ==
    IF self \in {"Locked", "Closed"}
    THEN [context |-> [ctx EXCEPT !.lock_counter = (@ + 1) % U16], panic |-> FALSE]
    ELSE [context |-> ctx, panic |-> FALSE]

\* fn enter: lock_counter += 1 on Locked (u16)
Protocol_enter(self, ctx) ==
    IF self = "Locked"
    THEN IF ctx.lock_counter + 1 >= U16 /\ overflow_checks
         THEN [context |-> ctx, panic |-> TRUE]
         ELSE [context |-> [ctx EXCEPT !.lock_counter = (@ + 1) % U16], panic |-> FALSE]
    ELSE [context |-> ctx, panic |-> FALSE]

\* fn handle: the transition table
Protocol_handle(self, event, ctx) ==
    [next |-> CASE self = "Init"   /\ event = "Create" -> "Opened"
                [] self = "Opened" /\ event = "Close"  -> "Closed"
                [] self = "Closed" /\ event = "Open"   -> "Opened"
                [] self = "Closed" /\ event = "Lock"   -> "Locked"
                [] self = "Locked" /\ event = "Unlock" -> "Closed"
                [] OTHER -> None,
     context |-> ctx,
     panic |-> FALSE]

\* fn main: the events dispatched, in order
ProtocolMain == <<"Create", "Close", "Lock", "Unlock", "Open">>

------------------------------------------------------------------------------
\* examples/mario.rs

BigMarioStates == {"SuperMario", "CapeMario", "FireMario"}
AliveStates == {"SmallMario"} \cup BigMarioStates
MarioStates == AliveStates \cup {"DeadMario"}
MarioConsumables == {"Mushroom", "Flower", "Feather"}
MarioEvents == {"GetConsumable(Mushroom)", "GetConsumable(Flower)",
                "GetConsumable(Feather)", "GetHit"}
MarioDefaultState == "SmallMario"
MarioDefaultContext == [number_of_lifes |-> 1, number_of_coins |-> 0]

\* context.number_of_coins += n (u16)
AddCoins(ctx, n) ==
    IF ctx.number_of_coins + n >= U16 /\ overflow_checks
    THEN [context |-> ctx, panic |-> TRUE]
    ELSE [context |-> [ctx EXCEPT !.number_of_coins = (@ + n) % U16], panic |-> FALSE]

\* Mario_enter with `=` in place of `+=` for CapeMario
Mario_enter_cape_assigns(self, ctx) ==
    CASE self = "SmallMario" -> [context |-> [ctx EXCEPT !.number_of_coins = 0], panic |-> FALSE]
      [] self = "SuperMario" -> AddCoins(ctx, 100)
      [] self = "FireMario"  -> AddCoins(ctx, 200)
      [] self = "CapeMario"  -> [context |-> [ctx EXCEPT !.number_of_coins = 300], panic |-> FALSE]
      [] self = "DeadMario"  -> [context |-> [ctx EXCEPT !.number_of_lifes = 0], panic |-> FALSE]

\* Mario_enter leaving number_of_lifes alone on DeadMario
Mario_enter_dead_keeps_lifes(self, ctx) ==
    CASE self = "SmallMario" -> [context |-> [ctx EXCEPT !.number_of_coins = 0], panic |-> FALSE]
      [] self = "SuperMario" -> AddCoins(ctx, 100)
      [] self = "FireMario"  -> AddCoins(ctx, 200)
      [] self = "CapeMario"  -> AddCoins(ctx, 300)
      [] self = "DeadMario"  -> [context |-> ctx, panic |-> FALSE]

\* fn enter
Mario_enter(self, ctx) ==
    CASE self = "SmallMario" -> [context |-> [ctx EXCEPT !.number_of_coins = 0], panic |-> FALSE]
      [] self = "SuperMario" -> AddCoins(ctx, 100)
      [] self = "FireMario"  -> AddCoins(ctx, 200)
      [] self = "CapeMario"  -> AddCoins(ctx, 300)
      [] self = "DeadMario"  -> [context |-> [ctx EXCEPT !.number_of_lifes = 0], panic |-> FALSE]

\* Mario_handle_event without the (BigMario(_), GetHit) arm
Mario_handle_event_no_big_hit(self, event, ctx) ==
    CASE self = "SmallMario" /\ event = "GetConsumable(Mushroom)" ->
            [next |-> "SuperMario", context |-> ctx, panic |-> FALSE]
      [] self \in {"SmallMario", "SuperMario", "CapeMario"} /\ event = "GetConsumable(Flower)" ->
            [next |-> "FireMario", context |-> ctx, panic |-> FALSE]
      [] self \in {"SmallMario", "SuperMario", "FireMario"} /\ event = "GetConsumable(Feather)" ->
            [next |-> "CapeMario", context |-> ctx, panic |-> FALSE]
      [] self = "SmallMario" /\ event = "GetHit" /\ ctx.number_of_lifes = 1 ->
            [next |-> "DeadMario", context |-> ctx, panic |-> FALSE]
      [] OTHER -> [next |-> None, context |-> ctx, panic |-> FALSE]

\* Mario_handle_event with the Flower arm matching every BigMario variant
Mario_handle_event_flower_any_big(self, event, ctx) ==
    CASE self = "SmallMario" /\ event = "GetConsumable(Mushroom)" ->
            [next |-> "SuperMario", context |-> ctx, panic |-> FALSE]
      [] self \in AliveStates /\ event = "GetConsumable(Flower)" ->
            [next |-> "FireMario", context |-> ctx, panic |-> FALSE]
      [] self \in {"SmallMario", "SuperMario", "FireMario"} /\ event = "GetConsumable(Feather)" ->
            [next |-> "CapeMario", context |-> ctx, panic |-> FALSE]
      [] self = "SmallMario" /\ event = "GetHit" ->
            IF ctx.number_of_lifes = 1
            THEN [next |-> "DeadMario", context |-> ctx, panic |-> FALSE]
            ELSE IF ctx.number_of_lifes - 1 < 0 /\ overflow_checks
                 THEN [next |-> None, context |-> ctx, panic |-> TRUE]
                 ELSE [next |-> None,
                       context |-> [ctx EXCEPT !.number_of_lifes = (@ - 1) % U8],
                       panic |-> FALSE]
      [] self \in BigMarioStates /\ event = "GetHit" ->
            [next |-> "SmallMario", context |-> ctx, panic |-> FALSE]
      [] OTHER -> [next |-> None, context |-> ctx, panic |-> FALSE]

\* Mario_handle_event with a Mushroom arm that also matches DeadMario
Mario_handle_event_dead_revives(self, event, ctx) ==
    CASE self = "DeadMario" /\ event = "GetConsumable(Mushroom)" ->
            [next |-> "SmallMario", context |-> ctx, panic |-> FALSE]
      [] self = "SmallMario" /\ event = "GetConsumable(Mushroom)" ->
            [next |-> "SuperMario", context |-> ctx, panic |-> FALSE]
      [] self \in {"SmallMario", "SuperMario", "CapeMario"} /\ event = "GetConsumable(Flower)" ->
            [next |-> "FireMario", context |-> ctx, panic |-> FALSE]
      [] self \in {"SmallMario", "SuperMario", "FireMario"} /\ event = "GetConsumable(Feather)" ->
            [next |-> "CapeMario", context |-> ctx, panic |-> FALSE]
      [] self = "SmallMario" /\ event = "GetHit" ->
            IF ctx.number_of_lifes = 1
            THEN [next |-> "DeadMario", context |-> ctx, panic |-> FALSE]
            ELSE IF ctx.number_of_lifes - 1 < 0 /\ overflow_checks
                 THEN [next |-> None, context |-> ctx, panic |-> TRUE]
                 ELSE [next |-> None,
                       context |-> [ctx EXCEPT !.number_of_lifes = (@ - 1) % U8],
                       panic |-> FALSE]
      [] self \in BigMarioStates /\ event = "GetHit" ->
            [next |-> "SmallMario", context |-> ctx, panic |-> FALSE]
      [] OTHER -> [next |-> None, context |-> ctx, panic |-> FALSE]

\* fn handle_event: the match arms in source order
Mario_handle_event(self, event, ctx) ==
    CASE self = "SmallMario" /\ event = "GetConsumable(Mushroom)" ->
            [next |-> "SuperMario", context |-> ctx, panic |-> FALSE]
      [] self \in {"SmallMario", "SuperMario", "CapeMario"} /\ event = "GetConsumable(Flower)" ->
            [next |-> "FireMario", context |-> ctx, panic |-> FALSE]
      [] self \in {"SmallMario", "SuperMario", "FireMario"} /\ event = "GetConsumable(Feather)" ->
            [next |-> "CapeMario", context |-> ctx, panic |-> FALSE]
      [] self = "SmallMario" /\ event = "GetHit" ->
            IF ctx.number_of_lifes = 1
            THEN [next |-> "DeadMario", context |-> ctx, panic |-> FALSE]
            ELSE IF ctx.number_of_lifes - 1 < 0 /\ overflow_checks
                 THEN [next |-> None, context |-> ctx, panic |-> TRUE]
                 ELSE [next |-> None,
                       context |-> [ctx EXCEPT !.number_of_lifes = (@ - 1) % U8],
                       panic |-> FALSE]
      [] self \in BigMarioStates /\ event = "GetHit" ->
            [next |-> "SmallMario", context |-> ctx, panic |-> FALSE]
      [] OTHER -> [next |-> None, context |-> ctx, panic |-> FALSE]

\* fn main: the events dispatched, in order
MarioMain == <<"GetConsumable(Mushroom)", "GetHit", "GetConsumable(Flower)",
               "GetConsumable(Feather)", "GetHit", "GetHit">>

------------------------------------------------------------------------------
\* The StateBehavior trait, resolved for the domain the driver is generated for

States == IF domain = "Protocol" THEN ProtocolStates ELSE MarioStates
Events == IF domain = "Protocol" THEN ProtocolEvents ELSE MarioEvents
DefaultState == IF domain = "Protocol" THEN ProtocolDefaultState ELSE MarioDefaultState
DefaultContext == IF domain = "Protocol" THEN ProtocolDefaultContext ELSE MarioDefaultContext
Main == IF domain = "Protocol" THEN ProtocolMain ELSE MarioMain

\* the trait's default hook body `{}`; neither example overrides exit
StateBehavior_exit(self, ctx) == [context |-> ctx, panic |-> FALSE]

enter(self, ctx) ==
    IF domain = "Protocol" THEN Protocol_enter(self, ctx) ELSE Mario_enter(self, ctx)

\* exit running the body of enter
exit_runs_enter(self, ctx) == enter(self, ctx)

exit(self, ctx) == StateBehavior_exit(self, ctx)

handle_event(self, event, ctx) ==
    IF domain = "Protocol" THEN Protocol_handle(self, event, ctx)
    ELSE Mario_handle_event(self, event, ctx)

------------------------------------------------------------------------------
\* The statements of the generated drivers.  A machine value m is
\* [current_state, context, panicked, ret, trace]; a statement that follows a
\* panic does not run.

Entry(step, state, pre, post) == [step |-> step, state |-> state, pre |-> pre, post |-> post]

\* self.current_state.handle(&event, &mut self.context)
CallHandle(m, event) ==
    IF m.panicked THEN m
    ELSE LET r == handle_event(m.current_state, event, m.context)
         IN  IF r.panic THEN [m EXCEPT !.panicked = TRUE]
             ELSE [m EXCEPT !.context = r.context,
                            !.ret = r.next,
                            !.trace = Append(@, Entry("handle", m.current_state,
                                                      m.context, r.context))]

\* self.current_state.exit(&mut self.context)
CallExit(m) ==
    IF m.panicked THEN m
    ELSE LET r == exit(m.current_state, m.context)
         IN  IF r.panic THEN [m EXCEPT !.panicked = TRUE]
             ELSE [m EXCEPT !.context = r.context,
                            !.trace = Append(@, Entry("exit", m.current_state,
                                                      m.context, r.context))]

\* self.current_state = new_state
Assign(m, new_state) ==
    IF m.panicked THEN m
    ELSE [m EXCEPT !.current_state = new_state,
                   !.trace = Append(@, Entry("assign", new_state, m.context, m.context))]

\* self.current_state.enter(&mut self.context)
CallEnter(m) ==
    IF m.panicked THEN m
    ELSE LET r == enter(m.current_state, m.context)
         IN  IF r.panic THEN [m EXCEPT !.panicked = TRUE]
             ELSE [m EXCEPT !.context = r.context,
                            !.trace = Append(@, Entry("enter", m.current_state,
                                                      m.context, r.context))]

------------------------------------------------------------------------------
\* rustfsm! (src/lib.rs)

\* rustfsm_transit assigning before it calls exit
rustfsm_transit_assign_first(m, new_state) == CallEnter(CallExit(Assign(m, new_state)))

\* rustfsm_transit returning early when the new state is the current one
rustfsm_transit_skip_same(m, new_state) ==
    IF new_state = m.current_state THEN m
    ELSE CallEnter(Assign(CallExit(m), new_state))

rustfsm_transit(m, new_state) == CallEnter(Assign(CallExit(m), new_state))

\* rustfsm_force_state re-initialising the context
rustfsm_force_state_resets(m, new_state) ==
    [Assign(m, new_state) EXCEPT !.context = DefaultContext]

rustfsm_force_state(m, new_state) == Assign(m, new_state)

\* rustfsm_handle without the call of enter
rustfsm_handle_no_enter(m, event) ==
    LET m1 == CallHandle(m, event)
    IN  IF m1.panicked \/ m1.ret = None THEN m1
        ELSE Assign(CallExit(m1), m1.ret)

\* rustfsm_handle calling enter on the new state before exit
rustfsm_handle_enter_first(m, event) ==
    LET m1 == CallHandle(m, event)
    IN  IF m1.panicked \/ m1.ret = None THEN m1
        ELSE CallExit(CallEnter(Assign(m1, m1.ret)))

\* rustfsm_handle without the call of exit
rustfsm_handle_no_exit(m, event) ==
    LET m1 == CallHandle(m, event)
    IN  IF m1.panicked \/ m1.ret = None THEN m1
        ELSE CallEnter(Assign(m1, m1.ret))

rustfsm_handle(m, event) ==
    LET m1 == CallHandle(m, event)
    IN  IF m1.panicked \/ m1.ret = None THEN m1
        ELSE CallEnter(Assign(CallExit(m1), m1.ret))

\* #[rust_sfsm] (rust-sfsm-macros/src/lib.rs)

\* rust_sfsm_transit without the call of exit
rust_sfsm_transit_no_exit(m, new_state) == CallEnter(Assign(m, new_state))

rust_sfsm_transit(m, new_state) == CallEnter(Assign(CallExit(m), new_state))

\* rust_sfsm_force_state going through the supervised transition
rust_sfsm_force_state_supervised(m, new_state) == rust_sfsm_transit(m, new_state)

rust_sfsm_force_state(m, new_state) == Assign(m, new_state)

\* rust_sfsm_handle_event dispatching the event again to the state it moved to
rust_sfsm_handle_event_chained(m, event) ==
    LET m1 == CallHandle(m, event)
    IN  IF m1.panicked \/ m1.ret = None THEN m1
        ELSE LET m2 == rust_sfsm_transit(m1, m1.ret)
                 r  == handle_event(m2.current_state, event, m2.context)
             IN  IF m2.panicked \/ r.panic \/ r.next = None THEN m2
                 ELSE rust_sfsm_transit([m2 EXCEPT !.context = r.context], r.next)

rust_sfsm_handle_event(m, event) ==
    LET m1 == CallHandle(m, event)
    IN  IF m1.panicked \/ m1.ret = None THEN m1
        ELSE rust_sfsm_transit(m1, m1.ret)

\* fn current_state(&self)
current_state_fn == current_state

------------------------------------------------------------------------------
\* Bookkeeping of a call

Self == [current_state |-> current_state, context |-> context, panicked |-> FALSE,
         ret |-> None, trace |-> <<>>]

CountSteps(trace, step) == Cardinality({i \in 1..Len(trace) : trace[i].step = step})

Finish(op, arg, m) ==
    /\ current_state' = m.current_state
    /\ context' = m.context
    /\ panicked' = m.panicked
    /\ last' = [op |-> op, arg |-> arg, after |-> last.op, pre_state |-> current_state,
                pre_context |-> context, ret |-> m.ret, trace |-> m.trace]
    /\ nCalls' = nCalls + 1
    /\ nSupervised' = nSupervised +
                      (IF op = "transit" \/ (op = "dispatch" /\ m.ret # None) THEN 1 ELSE 0)
    /\ nExit' = nExit + CountSteps(m.trace, "exit")
    /\ nEnter' = nEnter + CountSteps(m.trace, "enter")
    /\ main_step' = IF /\ op = "dispatch"
                       /\ main_step >= 0
                       /\ main_step < Len(Main)
                       /\ arg = Main[main_step + 1]
                    THEN main_step + 1
                    ELSE -1
    /\ UNCHANGED <<domain, driver, overflow_checks>>

CanCall == ~panicked /\ nCalls < MaxCalls

------------------------------------------------------------------------------
\* Construction: rustfsm's new(initial_state) takes any initial state; the
\* hand-written new() of a #[rust_sfsm] struct uses Default::default().

\* a constructor that runs enter on the initial state
Init_enters_initial_state ==
    /\ domain \in {"Protocol", "Mario"}
    /\ driver \in {"rustfsm", "rust_sfsm"}
    /\ overflow_checks \in BOOLEAN
    /\ current_state \in (IF driver = "rustfsm" THEN States ELSE {DefaultState})
    /\ context = enter(current_state, DefaultContext).context
    /\ panicked = FALSE
    /\ last = [op |-> "new", arg |-> current_state, after |-> "new",
               pre_state |-> current_state,
               pre_context |-> context, ret |-> None, trace |-> <<>>]
    /\ nCalls = 0
    /\ nSupervised = 0
    /\ nExit = 0
    /\ nEnter = 0
    /\ main_step = IF current_state = DefaultState THEN 0 ELSE -1

Init ==
    /\ domain \in {"Protocol", "Mario"}
    /\ driver \in {"rustfsm", "rust_sfsm"}
    /\ overflow_checks \in BOOLEAN
    /\ current_state \in (IF driver = "rustfsm" THEN States ELSE {DefaultState})
    /\ context = DefaultContext
    /\ panicked = FALSE
    /\ last = [op |-> "new", arg |-> current_state, after |-> "new",
               pre_state |-> current_state,
               pre_context |-> context, ret |-> None, trace |-> <<>>]
    /\ nCalls = 0
    /\ nSupervised = 0
    /\ nExit = 0
    /\ nEnter = 0
    /\ main_step = IF current_state = DefaultState THEN 0 ELSE -1

\* handle(event) / handle_event(&event)
Dispatch(event) ==
    /\ CanCall
    /\ Finish("dispatch", event,
              IF driver = "rustfsm" THEN rustfsm_handle(Self, event)
              ELSE rust_sfsm_handle_event(Self, event))

\* transit(new_state)
Transit(new_state) ==
    /\ CanCall
    /\ Finish("transit", new_state,
              IF driver = "rustfsm" THEN rustfsm_transit(Self, new_state)
              ELSE rust_sfsm_transit(Self, new_state))

\* force_state(new_state)
ForceState(new_state) ==
    /\ CanCall
    /\ Finish("force_state", new_state,
              IF driver = "rustfsm" THEN rustfsm_force_state(Self, new_state)
              ELSE rust_sfsm_force_state(Self, new_state))

Next ==
    \/ \E event \in Events : Dispatch(event)
    \/ \E new_state \in States : Transit(new_state)
    \/ \E new_state \in States : ForceState(new_state)

Spec == Init /\ [][Next]_vars

------------------------------------------------------------------------------
\* The Mario machine as main() of examples/mario.rs uses it: created by
\* Mario::new() and driven by get_consummable / get_hit only, for any number
\* of events.  The call counters are not kept here.

MarioInit ==
    /\ Init
    /\ domain = "Mario"
    /\ current_state = MarioDefaultState

\* get_consummable(consummable) / get_hit()
MarioDispatch(event) ==
    /\ ~panicked
    /\ LET m == IF driver = "rustfsm" THEN rustfsm_handle(Self, event)
                ELSE rust_sfsm_handle_event(Self, event)
       IN  /\ current_state' = m.current_state
           /\ context' = m.context
           /\ panicked' = m.panicked
           /\ last' = [op |-> "dispatch", arg |-> event, after |-> last.op,
                       pre_state |-> current_state, pre_context |-> context,
                       ret |-> m.ret, trace |-> m.trace]
    /\ UNCHANGED <<domain, driver, overflow_checks, nCalls, nSupervised, nExit, nEnter,
                   main_step>>

MarioNext == \E event \in MarioEvents : MarioDispatch(event)

MarioSpec == MarioInit /\ [][MarioNext]_vars

------------------------------------------------------------------------------
\* Properties

\* the hook and assignment steps of the last call, without the transition function
Steps(trace) == SelectSeq(trace, LAMBDA e : e.step # "handle")

\* every step of the last call started from the context the previous step left
Threaded ==
    /\ \A i \in 1..Len(last.trace) :
          last.trace[i].pre = (IF i = 1 THEN last.pre_context ELSE last.trace[i - 1].post)
    /\ context = (IF last.trace = <<>> THEN last.pre_context
                  ELSE last.trace[Len(last.trace)].post)

\* the three steps of a supervised transition from a to b
Supervised(steps, a, b) ==
    /\ Len(steps) = 3
    /\ steps[1].step = "exit"   /\ steps[1].state = a
    /\ steps[2].step = "assign" /\ steps[2].state = b /\ steps[2].post = steps[2].pre
    /\ steps[3].step = "enter"  /\ steps[3].state = b

\* C1: a transit(B) that returns has performed exactly exit on the old state A
\* (A still current), then the assignment of B, then enter on B, each step
\* starting from the context the previous one left; B is current afterwards.
C1_TransitOrder ==
    (last.op = "transit" /\ ~panicked) =>
        /\ Supervised(last.trace, last.pre_state, last.arg)
        /\ Threaded
        /\ current_state = last.arg

C1_Witness ==
    /\ last.op = "transit" /\ ~panicked
    /\ last.pre_state # last.arg
    /\ context # last.pre_context

\* C2: a dispatch that returns has evaluated the transition function of the
\* state current at call time; on Some(next) the current state is next after
\* exactly one supervised transition, on None it is the state before the call.
C2_DispatchOneTransition ==
    (last.op = "dispatch" /\ ~panicked) =>
        /\ last.trace # <<>>
        /\ last.trace[1].step = "handle"
        /\ last.trace[1].state = last.pre_state
        /\ last.ret = handle_event(last.pre_state, last.arg, last.pre_context).next
        /\ IF last.ret # None
           THEN /\ current_state = last.ret
                /\ Supervised(Steps(last.trace), last.pre_state, last.ret)
                /\ Len(last.trace) = 4
           ELSE /\ current_state = last.pre_state
                /\ Len(last.trace) = 1

\* a BigMario installed by force_state takes a hit: SmallMario accepts GetHit
\* too (number_of_lifes = 1), and the machine stops in SmallMario
C2_Witness ==
    /\ domain = "Mario"
    /\ last.op = "dispatch" /\ last.after = "force_state" /\ ~panicked
    /\ last.pre_state \in BigMarioStates /\ last.arg = "GetHit"
    /\ context.number_of_lifes = 1
    /\ current_state = "SmallMario"

\* C3: a dispatch whose transition function returned None leaves the current
\* state and the context as they were before the call.
C3_NoTransitionNoChange ==
    (last.op = "dispatch" /\ ~panicked /\ last.ret = None) =>
        /\ current_state = last.pre_state
        /\ context = last.pre_context

\* C4: force_state(S) makes S current, runs no hook and leaves the context
\* as it was.
C4_ForceStateNoHooks ==
    last.op = "force_state" =>
        /\ ~panicked
        /\ current_state = last.arg
        /\ context = last.pre_context
        /\ CountSteps(last.trace, "exit") = 0
        /\ CountSteps(last.trace, "enter") = 0

C4_Witness ==
    /\ domain = "Protocol"
    /\ last.op = "force_state" /\ last.arg = "Locked" /\ last.pre_state = "Closed"
    /\ last.pre_context.lock_counter = 1
    /\ current_state = "Locked"

C6_HookCounts ==
    ~panicked =>
        /\ nExit = nSupervised
        /\ nEnter = nSupervised
        /\ IF last.op = "transit" \/ (last.op = "dispatch" /\ last.ret # None)
           THEN LET b == IF last.op = "transit" THEN last.arg ELSE last.ret
                IN  Supervised(Steps(last.trace), last.pre_state, b)
           ELSE /\ CountSteps(last.trace, "exit") = 0
                /\ CountSteps(last.trace, "enter") = 0

C6_Witness ==
    /\ ~panicked
    /\ driver = "rust_sfsm"
    /\ nSupervised >= 2
    /\ nCalls >= nSupervised + 2
    /\ last.op = "transit" /\ last.after = "force_state"

\* the values a context of the domain can hold
Contexts ==
    IF domain = "Protocol" THEN [lock_counter : 0..(U16 - 1)]
    ELSE [number_of_lifes : 0..(U8 - 1), number_of_coins : 0..(U16 - 1)]

\* C7: whenever a call has returned, the driver holds one state of the state
\* set and one context, and the call left no supervised transition half-done:
\* every exit it ran was followed by the assignment and by enter on the state
\* that current_state() now returns.
C7_NoHalfDoneTransition ==
    ~panicked =>
        /\ current_state_fn \in States
        /\ context \in Contexts
        /\ nExit = nEnter
        /\ LET steps == Steps(last.trace)
           IN  \/ steps = <<>>
               \/ Len(steps) = 1 /\ steps[1].step = "assign"
                                 /\ steps[1].state = current_state_fn
               \/ \E a \in States : Supervised(steps, a, current_state_fn)

C7_Witness ==
    /\ ~panicked
    /\ driver = "rustfsm"
    /\ last.op = "dispatch" /\ last.ret # None
    /\ current_state_fn # last.pre_state
    /\ nExit = 2

\* the states main() of examples/protocol.rs asserts, in order
ProtocolMainTrace == <<"Init", "Opened", "Closed", "Locked", "Closed", "Opened">>

\* C8: Protocol from Init with lock_counter = 0: dispatching Create, Close,
\* Lock, Unlock, Open in that order visits Init, Opened, Closed, Locked,
\* Closed, Opened; lock_counter is 0 up to the Lock step and 1 from it on.
C8_ProtocolScenario ==
    (domain = "Protocol" /\ main_step >= 0) =>
        /\ current_state = ProtocolMainTrace[main_step + 1]
        /\ context.lock_counter = (IF main_step >= 3 THEN 1 ELSE 0)

C8_Witness ==
    /\ domain = "Protocol"
    /\ main_step = 5
    /\ current_state = "Opened"
    /\ context.lock_counter = 1

\* C9: Mario, a GetHit that returns: from SmallMario with number_of_lifes = 1
\* the machine is in DeadMario with number_of_lifes = 0; from a BigMario
\* variant it is in SmallMario with number_of_coins = 0 and number_of_lifes
\* as before.
C9_MarioGetHit ==
    (domain = "Mario" /\ last.op = "dispatch" /\ last.arg = "GetHit" /\ ~panicked) =>
        /\ (last.pre_state = "SmallMario" /\ last.pre_context.number_of_lifes = 1) =>
               /\ current_state = "DeadMario"
               /\ context.number_of_lifes = 0
        /\ last.pre_state \in BigMarioStates =>
               /\ current_state = "SmallMario"
               /\ context.number_of_coins = 0
               /\ context.number_of_lifes = last.pre_context.number_of_lifes

\* the end of main() of examples/mario.rs: hit as CapeMario, then as SmallMario
C9_Witness ==
    /\ domain = "Mario"
    /\ main_step = 6
    /\ last.pre_state = "SmallMario" /\ last.arg = "GetHit"
    /\ current_state = "DeadMario"
    /\ context.number_of_lifes = 0

\* the coins an entry into a state adds
CoinsOnEntry(state) ==
    CASE state = "SuperMario" -> 100
      [] state = "FireMario"  -> 200
      [] state = "CapeMario"  -> 300
      [] OTHER -> 0

C11_DispatchTotal ==
    last.op = "dispatch" =>
        /\ ~panicked
        /\ current_state \in States
        /\ IF last.ret = None THEN current_state = last.pre_state
           ELSE current_state = last.ret

\* C12: the exit step of every supervised transition leaves the context as
\* it found it (neither example overrides exit), and in Protocol an enter
\* step on a state other than Locked leaves it as it found it too.
C12_DefaultHooksNoOp ==
    \A i \in 1..Len(last.trace) :
        LET e == last.trace[i]
        IN  /\ e.step = "exit" => e.post = e.pre
            /\ (domain = "Protocol" /\ e.step = "enter" /\ e.state # "Locked") =>
                   e.post = e.pre

\* FireMario with 200 coins is hit: exit on FireMario keeps the 200, enter on
\* SmallMario then zeroes them
C12_Witness ==
    /\ domain = "Mario"
    /\ last.op = "dispatch" /\ last.pre_state = "FireMario" /\ last.ret = "SmallMario"
    /\ Len(last.trace) = 4
    /\ last.trace[2].step = "exit"
    /\ last.trace[2].pre.number_of_coins = 200
    /\ last.trace[2].post.number_of_coins = 200
    /\ context.number_of_coins = 0

\* the call just made entered Locked through a supervised transition
EnteredLocked ==
    \/ last.op = "transit" /\ last.arg = "Locked"
    \/ last.op = "dispatch" /\ last.ret = "Locked"

C14_DispatchThreadsContext ==
    (last.op = "dispatch" /\ last.ret # None /\ ~panicked) =>
        /\ Len(last.trace) = 4
        /\ last.trace[1].step = "handle" /\ last.trace[1].state = last.pre_state
        /\ last.trace[1].pre = last.pre_context
        /\ last.trace[1].post =
              handle_event(last.pre_state, last.arg, last.pre_context).context
        /\ last.trace[2].step = "exit"   /\ last.trace[2].state = last.pre_state
        /\ last.trace[2].pre = last.trace[1].post
        /\ last.trace[3].step = "assign" /\ last.trace[3].state = last.ret
        /\ last.trace[3].pre = last.trace[2].post
        /\ last.trace[4].step = "enter"  /\ last.trace[4].state = last.ret
        /\ last.trace[4].pre = last.trace[3].post
        /\ context = last.trace[4].post

C14_Witness ==
    /\ domain = "Protocol" /\ driver = "rust_sfsm"
    /\ last.op = "dispatch" /\ last.arg = "Lock" /\ ~panicked
    /\ Len(last.trace) = 4
    /\ current_state = "Locked"
    /\ context.lock_counter = last.pre_context.lock_counter + 1
\* the driver as it was when the last call was made
Before == [current_state |-> last.pre_state, context |-> last.pre_context,
           panicked |-> FALSE, ret |-> None, trace |-> <<>>]

\* C15: for every dispatch made, handle of rustfsm! and handle_event of
\* #[rust_sfsm] give the same current state, context, outcome and sequence of
\* steps, which are those the driver in use produced; when the transition
\* function returns Some(next), both equal that call followed by transit(next).
C15_DriversEquivalent ==
    last.op = "dispatch" =>
        LET a == rustfsm_handle(Before, last.arg)
            b == rust_sfsm_handle_event(Before, last.arg)
            h == CallHandle(Before, last.arg)
        IN  /\ a = b
            /\ current_state = a.current_state
            /\ context = a.context
            /\ panicked = a.panicked
            /\ last.trace = a.trace
            /\ (~h.panicked /\ h.ret # None) =>
                   /\ a = rust_sfsm_transit(h, h.ret)
                   /\ b = rustfsm_transit(h, h.ret)

\* the Mario domain on the rustfsm! driver: SuperMario takes a Flower
C15_Witness ==
    /\ domain = "Mario" /\ driver = "rustfsm"
    /\ last.op = "dispatch" /\ last.arg = "GetConsumable(Flower)"
    /\ last.pre_state = "SuperMario" /\ current_state = "FireMario"
    /\ context.number_of_coins = last.pre_context.number_of_coins + 200

\* C16: Mario, a GetConsumable dispatch that returns: Mushroom makes a
\* transition from SmallMario only (to SuperMario); Flower moves SmallMario,
\* SuperMario and CapeMario to FireMario; Feather moves SmallMario, SuperMario
\* and FireMario to CapeMario; every other pair gives None, runs no hook and
\* leaves state and context as they were.
C16_MarioConsumables ==
    (domain = "Mario" /\ last.op = "dispatch" /\ last.arg # "GetHit" /\ ~panicked) =>
        LET from == last.pre_state
            moved == \/ last.arg = "GetConsumable(Mushroom)" /\ from = "SmallMario"
                     \/ last.arg = "GetConsumable(Flower)"
                          /\ from \in {"SmallMario", "SuperMario", "CapeMario"}
                     \/ last.arg = "GetConsumable(Feather)"
                          /\ from \in {"SmallMario", "SuperMario", "FireMario"}
            to == CASE last.arg = "GetConsumable(Mushroom)" -> "SuperMario"
                    [] last.arg = "GetConsumable(Flower)"   -> "FireMario"
                    [] last.arg = "GetConsumable(Feather)"  -> "CapeMario"
        IN  IF moved
            THEN last.ret = to /\ current_state = to
            ELSE /\ last.ret = None
                 /\ current_state = from
                 /\ context = last.pre_context
                 /\ CountSteps(last.trace, "exit") = 0
                 /\ CountSteps(last.trace, "enter") = 0

\* FireMario takes another Flower: nothing happens, the 200 coins stay
C16_Witness ==
    /\ domain = "Mario"
    /\ last.op = "dispatch" /\ last.arg = "GetConsumable(Flower)" /\ ~panicked
    /\ last.pre_state = "FireMario" /\ current_state = "FireMario"
    /\ last.pre_context.number_of_coins = 200
    /\ context.number_of_coins = 200

\* C17: Mario: a dispatch made while DeadMario is current returns, leaves
\* DeadMario current and the context unchanged; a call that leaves DeadMario
\* is a transit or a force_state.
C17_DeadMarioTerminal ==
    [][ (domain = "Mario" /\ current_state = "DeadMario") =>
          /\ last'.op = "dispatch" =>
                /\ ~panicked'
                /\ current_state' = "DeadMario"
                /\ context' = context
          /\ current_state' # "DeadMario" => last'.op \in {"transit", "force_state"} ]_vars

\* the second of two events dispatched in a row to DeadMario
C17_Witness ==
    /\ domain = "Mario"
    /\ last.op = "dispatch" /\ last.after = "dispatch"
    /\ last.pre_state = "DeadMario" /\ current_state = "DeadMario"
    /\ nCalls >= 3
    /\ context = last.pre_context

\* C18: a newly created driver has the supplied (rustfsm!) or default
\* (#[rust_sfsm]) initial state current and the default context (Protocol:
\* lock_counter 0; Mario: number_of_lifes 1, number_of_coins 0), and no hook
\* has run; a force_state made as the first call leaves that context as
\* it is.
C18_ConstructionNoHook ==
    LET fresh == IF domain = "Protocol" THEN [lock_counter |-> 0]
                 ELSE [number_of_lifes |-> 1, number_of_coins |-> 0]
        first == IF domain = "Protocol" THEN "Init" ELSE "SmallMario"
    IN  /\ nCalls = 0 =>
              /\ last.op = "new"
              /\ current_state = last.arg
              /\ driver = "rust_sfsm" => current_state = first
              /\ context = fresh
              /\ last.trace = <<>>
              /\ nEnter = 0 /\ nExit = 0
        /\ (nCalls = 1 /\ last.op = "force_state") =>
              /\ context = fresh
              /\ nEnter = 0 /\ nExit = 0

\* a Protocol constructed with Locked as its initial state
C18_Witness ==
    /\ domain = "Protocol" /\ driver = "rustfsm"
    /\ nCalls = 0 /\ last.op = "new"
    /\ current_state = "Locked"
    /\ context.lock_counter = 0
\* fn is_alive(&self)
is_alive == current_state # "DeadMario"

\* fn get_number_of_lifes(&self)
get_number_of_lifes == context.number_of_lifes

\* fn get_number_of_coins(&self)
get_number_of_coins == context.number_of_coins

\* C19: Mario created by new() and driven by dispatch only: number_of_lifes
\* is 0 or 1, it is 0 exactly when DeadMario is current (is_alive() iff
\* number_of_lifes = 1), and no GetHit has reached SmallMario with
\* number_of_lifes other than 1 (the decrementing branch is never taken).
C19_MarioLifes ==
    /\ get_number_of_lifes \in {0, 1}
    /\ get_number_of_lifes = 0 <=> current_state = "DeadMario"
    /\ is_alive <=> get_number_of_lifes = 1
    /\ ~ ( /\ last.op = "dispatch" /\ last.arg = "GetHit"
           /\ last.pre_state = "SmallMario"
           /\ last.pre_context.number_of_lifes # 1 )

\* SmallMario is hit and dies; a further event is dispatched to DeadMario
C19_Witness ==
    /\ current_state = "DeadMario"
    /\ get_number_of_lifes = 0
    /\ ~is_alive
    /\ last.op = "dispatch" /\ last.after = "dispatch"
    /\ last.pre_state = "DeadMario" /\ last.arg = "GetHit"

\* C20: Mario created by new() and driven by dispatch only: no dispatch
\* panics, and every enter on a BigMario variant leaves number_of_coins at
\* exactly the old value plus 100, 200 or 300, within 0..65535 (no wrap).
C20_CoinsNoOverflow ==
    /\ ~panicked
    /\ get_number_of_coins \in 0..(U16 - 1)
    /\ \A i \in 1..Len(last.trace) :
          LET e == last.trace[i]
          IN  (e.step = "enter" /\ e.state \in BigMarioStates) =>
                 e.post.number_of_coins = e.pre.number_of_coins + CoinsOnEntry(e.state)
\* C21: Mario under any sequence of dispatch, transit and force_state calls:
\* `number_of_lifes -= 1` (SmallMario receiving GetHit with number_of_lifes
\* other than 1) is never executed with number_of_lifes = 0, so no dispatch
\* panics on it and number_of_lifes never wraps below 0.
C21_LifesNoUnderflow ==
    domain = "Mario" =>
        ~ ( /\ last.op = "dispatch" /\ last.arg = "GetHit"
            /\ last.pre_state = "SmallMario"
            /\ last.pre_context.number_of_lifes = 0 )
====
